---- MODULE Spec2Model ----
(***************************************************************************)
(* Elicitation manager of multi-tenant-github-mcp                          *)
(* (src/src/core/elicitation.py): the Store of elicitation Records, the   *)
(* Manager's transition API, the Session Auth Cache and the TTL Reaper     *)
(* thread.                                                                 *)
(*                                                                         *)
(* Threads.  The Manager's methods are synchronous and are called from     *)
(* the asyncio event loop (route handlers, tool coroutines), so each call  *)
(* is one atomic action.  The Reaper runs on its own daemon thread; its    *)
(* sweep is a sequence of steps (one per dictionary item, one per `del`)   *)
(* that interleave with the event-loop calls.                              *)
(*                                                                         *)
(* Time is counted in minutes.  time.sleep(interval) ends exactly          *)
(* `interval` after it started and a sweep takes no time.                  *)
(***************************************************************************)
EXTENDS Integers, Sequences, FiniteSets, TLC

VARIABLES
    elicitations_map,      \* ElicitationManager.elicitations_map: id -> Record
    session_service_auth,  \* ElicitationManager.session_service_auth
    now,                   \* datetime.now(), minutes since process start
    reaper,                \* the cleanup thread: position and locals
    issued,                \* every id uuid4 has returned so far -> creation time
    history,               \* per issued id: what the Manager calls did to it
    insecure_mode,         \* the INSECURE environment switch (relaxed trust)
    tool                   \* the list_private_repos call under way, or the last one

vars == <<elicitations_map, session_service_auth, now, reaper, issued, history,
          insecure_mode, tool>>

\* what the Manager's methods and the cleanup thread never touch
caller == <<insecure_mode, tool>>

-----------------------------------------------------------------------------
(* Bounds of the model *)

MaxProgress == 2     \* Spec: update_progress is not called on a Record past this progress
TTLMaxProgress == 1  \* SpecTTL: the same
MaxCreateTime == 10  \* latest minute at which a Record is created
MaxTime == 90        \* the clock stops here
TickMinutes == 10    \* the clock's step

(* Program constants *)

ELICITATION_TTL_HOURS == 1
CLEANUP_INTERVAL_MINUTES == 10

TTLMinutes == ELICITATION_TTL_HOURS * 60

-----------------------------------------------------------------------------
(* Values *)

None == "<None>"

UUIDs == <<"e1", "e2">>            \* what uuid.uuid4() returns, call after call
UnknownId == "e0"                  \* an id that no create ever returned
Sessions == {"s1", "s2"}
Services == {"github"}
DefaultMessage == "In progress"
MessageArgs == {None, "msg"}       \* Optional[str] message arguments
TokenArgs == {None, "", "ghp_a", "ghp_b"}

\* Python truthiness of an Optional[str]: `if message:` / `if token:`
Truthy(x) == x \notin {None, ""}

Min(a, b) == IF a <= b THEN a ELSE b

-----------------------------------------------------------------------------
(* asyncio.Future: the Bridge *)

Future == [done |-> FALSE, set_result_calls |-> 0, invalid_state |-> FALSE]

\* Future.set_result: raises InvalidStateError on a Future that is done
set_result(f) ==
    IF f.done
    THEN [f EXCEPT !.set_result_calls = @ + 1, !.invalid_state = TRUE]
    ELSE [f EXCEPT !.set_result_calls = @ + 1, !.done = TRUE]

-----------------------------------------------------------------------------
(* ElicitationMetadata *)

\* the notification sender of a Record: `callable` is false for None; a sender
\* that was attached keeps what it was sent, and whether a call of it raised
NoSender == [callable |-> FALSE, received |-> <<>>, failed |-> FALSE]

ElicitationMetadata(session_id, message, t) ==
    [ status              |-> "pending",
      progress            |-> 0,
      completed_promise   |-> Future,
      created_at          |-> t,
      session_id          |-> session_id,
      message             |-> message,
      progress_token      |-> None,
      notification_sender |-> NoSender,
      collected_token     |-> None,
      token_validated     |-> FALSE ]

\* `if metadata.progress_token and metadata.notification_sender:`
HasChannel(md) == Truthy(md.progress_token) /\ md.notification_sender.callable

\* whether the sender raises when it is called: a Record without a channel
\* calls none
SenderRaises(md) == IF HasChannel(md) THEN BOOLEAN ELSE {FALSE}

\* the notification block of update_elicitation_progress (final = FALSE) and of
\* complete_elicitation (final = TRUE, the notification carries `total`): the
\* sender is called with the Record's progress and message, and what it raises
\* is caught and logged
Notify(md, final, raises) ==
    IF ~HasChannel(md) THEN md
    ELSE IF raises THEN [md EXCEPT !.notification_sender.failed = TRUE]
    ELSE [md EXCEPT !.notification_sender.received =
             Append(@, IF final
                       THEN [progress |-> md.progress, total |-> md.progress,
                             message |-> md.message]
                       ELSE [progress |-> md.progress, message |-> md.message])]

\* `if message: metadata.message = message`
SetMessage(md, message) ==
    IF Truthy(message) THEN [md EXCEPT !.message = message] ELSE md

\* `if token: metadata.collected_token = token; metadata.token_validated = True`
SetToken(md, token) ==
    IF Truthy(token)
    THEN [md EXCEPT !.collected_token = token, !.token_validated = TRUE]
    ELSE md

\* `metadata.progress += 1`
IncrProgress(md) == [md EXCEPT !.progress = @ + 1]

\* faulty variant: set_result without the done() test
ResolvePromise_Unguarded(md) == [md EXCEPT !.completed_promise = set_result(@)]

\* `if not metadata.completed_promise.done(): ...set_result(None)`
ResolvePromise(md) ==
    IF ~md.completed_promise.done
    THEN [md EXCEPT !.completed_promise = set_result(@)]
    ELSE md

-----------------------------------------------------------------------------
(* The early returns of the Manager's methods *)

\* faulty variant: the test is never true
update_already_complete_Never(md) == FALSE

\* update_elicitation_progress: `if metadata.status == "complete": return`
update_already_complete(md) == md.status = "complete"

\* faulty variant: the test is never true
complete_already_complete_Never(md) == FALSE

\* complete_elicitation: `if metadata.status == "complete": return`
complete_already_complete(md) == md.status = "complete"

\* faulty variant: "complete" left out of the list
accept_already_processed_NoComplete(md) ==
    md.status \in {"accepted", "declined", "cancelled"}

\* accept_elicitation: `if metadata.status in [...]: return`
accept_already_processed(md) ==
    md.status \in {"complete", "accepted", "declined", "cancelled"}

\* faulty variant: "complete" left out of the list
decline_already_processed_NoComplete(md) ==
    md.status \in {"accepted", "declined", "cancelled"}

\* decline_elicitation: `if metadata.status in [...]: return`
decline_already_processed(md) ==
    md.status \in {"complete", "accepted", "declined", "cancelled"}

\* faulty variant: "complete" left out of the list
cancel_already_processed_NoComplete(md) ==
    md.status \in {"accepted", "declined", "cancelled"}

\* cancel_elicitation: `if metadata.status in [...]: return`
cancel_already_processed(md) ==
    md.status \in {"complete", "accepted", "declined", "cancelled"}

(* What each method does to the Record once it is past its early returns *)

\* faulty variant: `metadata.progress += 1` left out
update_metadata_NoIncrement(md, message) == SetMessage(md, message)

update_metadata(md, message) == IncrProgress(SetMessage(md, message))

complete_metadata(md, message, token) ==
    ResolvePromise(IncrProgress(SetToken(SetMessage(
        [md EXCEPT !.status = "complete"], message), token)))

\* update_elicitation_progress past its early returns, notification included
update_record(md, message, raises) ==
    Notify(update_metadata(md, message), FALSE, raises)

\* faulty variant: what the sender raises is not caught, and ends the call
\* before the Bridge is resolved
complete_record_Uncaught(md, message, token, raises) ==
    IF HasChannel(md) /\ raises
    THEN Notify(IncrProgress(SetToken(SetMessage(
             [md EXCEPT !.status = "complete"], message), token)), TRUE, raises)
    ELSE Notify(complete_metadata(md, message, token), TRUE, raises)

\* complete_elicitation past its early returns, notification included; the
\* sender is called between the increment and the Bridge's resolution, and
\* changes nothing the resolution reads
complete_record(md, message, token, raises) ==
    Notify(complete_metadata(md, message, token), TRUE, raises)

accept_metadata(md, message) ==
    ResolvePromise(IncrProgress(SetMessage(
        [md EXCEPT !.status = "accepted"], message)))

\* faulty variant: decline records the status of cancel
decline_metadata_AsCancel(md, message) ==
    ResolvePromise(IncrProgress(SetMessage(
        [md EXCEPT !.status = "cancelled"], message)))

decline_metadata(md, message) ==
    ResolvePromise(IncrProgress(SetMessage(
        [md EXCEPT !.status = "declined"], message)))

\* faulty variant: cancel leaves the Bridge unresolved
cancel_metadata_NoResolve(md, message) ==
    IncrProgress(SetMessage([md EXCEPT !.status = "cancelled"], message))

cancel_metadata(md, message) ==
    ResolvePromise(IncrProgress(SetMessage(
        [md EXCEPT !.status = "cancelled"], message)))

\* faulty variant: the token_validated test negated
get_collected_token_NotValidated(m, id) ==
    IF id \in DOMAIN m /\ m[id].status = "complete" /\ ~m[id].token_validated
    THEN m[id].collected_token
    ELSE None

\* get_collected_token, on the Store m
get_collected_token(m, id) ==
    IF id \in DOMAIN m /\ m[id].status = "complete" /\ m[id].token_validated
    THEN m[id].collected_token
    ELSE None

\* get_elicitation: dict.get
get_elicitation(m, id) == IF id \in DOMAIN m THEN m[id] ELSE None

\* faulty variant: the service is looked up where the sessions are
is_session_authenticated_for_service_WrongKey(c, session_id, service) ==
    IF service \notin DOMAIN c
    THEN FALSE
    ELSE IF session_id \in DOMAIN c[service]
         THEN c[service][session_id].authenticated
         ELSE FALSE

\* is_session_authenticated_for_service, on the cache c
is_session_authenticated_for_service(c, session_id, service) ==
    IF session_id \notin DOMAIN c
    THEN FALSE
    ELSE IF service \in DOMAIN c[session_id]
         THEN c[session_id][service].authenticated
         ELSE FALSE

\* faulty variant: the sweep also takes every Record that is no longer pending
IsExpired_OrTerminal(md, t) ==
    md.status # "pending" \/ t - md.created_at > TTLMinutes

\* cleanup_old_elicitations: `now - metadata.created_at > timedelta(hours=TTL)`
IsExpired(md, t) == t - md.created_at > TTLMinutes

-----------------------------------------------------------------------------
(* History kept for the properties; the program does not read it *)

NoHistory == [transitions |-> 0, resolved_via |-> None]

\* one Manager call took Record `old` to `new`
Observe(h, old, new) ==
    [ transitions  |-> h.transitions + (IF new.status # old.status THEN 1 ELSE 0),
      resolved_via |-> IF ~old.completed_promise.done /\ new.completed_promise.done
                       THEN new.status
                       ELSE h.resolved_via ]

\* ids a caller can name: those handed out so far, and one never handed out
IdArgs == DOMAIN issued \cup {UnknownId}

\* the Record `id` becomes `md`
Store(id, md) ==
    /\ elicitations_map' = [elicitations_map EXCEPT ![id] = md]
    /\ history' = [history EXCEPT ![id] = Observe(@, elicitations_map[id], md)]

Extend(f, k, v) == [x \in DOMAIN f \cup {k} |-> IF x = k THEN v ELSE f[x]]
Remove(f, k) == [x \in DOMAIN f \ {k} |-> f[x]]

-----------------------------------------------------------------------------
(* The Manager's methods, called on the event loop *)

\* faulty variant: the id is not fresh
generate_tracked_elicitation_SameId(session_id, message) ==
    /\ LET elicitation_id == UUIDs[1]
       IN /\ elicitations_map' =
                Extend(elicitations_map, elicitation_id,
                       ElicitationMetadata(session_id, message, now))
          /\ issued' = Extend(issued, elicitation_id, now)
          /\ history' = Extend(history, elicitation_id, NoHistory)
    /\ UNCHANGED <<session_service_auth, now, reaper>>

generate_tracked_elicitation(session_id, message) ==
    /\ Cardinality(DOMAIN issued) < Len(UUIDs)
    /\ LET elicitation_id == UUIDs[Cardinality(DOMAIN issued) + 1]  \* uuid.uuid4()
       IN /\ elicitations_map' =
                Extend(elicitations_map, elicitation_id,
                       ElicitationMetadata(session_id, message, now))
          /\ issued' = Extend(issued, elicitation_id, now)
          /\ history' = Extend(history, elicitation_id, NoHistory)
    /\ UNCHANGED <<session_service_auth, now, reaper>>

update_elicitation_progress(id, message) ==
    /\ IF id \notin DOMAIN elicitations_map
       THEN UNCHANGED <<elicitations_map, history>>
       ELSE IF update_already_complete(elicitations_map[id])
       THEN UNCHANGED <<elicitations_map, history>>
       ELSE \E raises \in SenderRaises(elicitations_map[id]) :
                Store(id, update_record(elicitations_map[id], message, raises))
    /\ UNCHANGED <<session_service_auth, now, reaper, issued>>

\* faulty variant: an unknown id gets a Record of its own
complete_elicitation_Upsert(id, message, token) ==
    /\ IF id \notin DOMAIN elicitations_map
       THEN /\ elicitations_map' =
                  Extend(elicitations_map, id,
                         complete_metadata(ElicitationMetadata(None, DefaultMessage, now),
                                           message, token))
            /\ history' = Extend(history, id, NoHistory)
       ELSE IF complete_already_complete(elicitations_map[id])
       THEN UNCHANGED <<elicitations_map, history>>
       ELSE Store(id, complete_metadata(elicitations_map[id], message, token))
    /\ UNCHANGED <<session_service_auth, now, reaper, issued>>

complete_elicitation(id, message, token) ==
    /\ IF id \notin DOMAIN elicitations_map
       THEN UNCHANGED <<elicitations_map, history>>
       ELSE IF complete_already_complete(elicitations_map[id])
       THEN UNCHANGED <<elicitations_map, history>>
       ELSE \E raises \in SenderRaises(elicitations_map[id]) :
                Store(id, complete_record(elicitations_map[id], message, token,
                                          raises))
    /\ UNCHANGED <<session_service_auth, now, reaper, issued>>

accept_elicitation(id, message) ==
    /\ IF id \notin DOMAIN elicitations_map
       THEN UNCHANGED <<elicitations_map, history>>
       ELSE IF accept_already_processed(elicitations_map[id])
       THEN UNCHANGED <<elicitations_map, history>>
       ELSE Store(id, accept_metadata(elicitations_map[id], message))
    /\ UNCHANGED <<session_service_auth, now, reaper, issued>>

decline_elicitation(id, message) ==
    /\ IF id \notin DOMAIN elicitations_map
       THEN UNCHANGED <<elicitations_map, history>>
       ELSE IF decline_already_processed(elicitations_map[id])
       THEN UNCHANGED <<elicitations_map, history>>
       ELSE Store(id, decline_metadata(elicitations_map[id], message))
    /\ UNCHANGED <<session_service_auth, now, reaper, issued>>

cancel_elicitation(id, message) ==
    /\ IF id \notin DOMAIN elicitations_map
       THEN UNCHANGED <<elicitations_map, history>>
       ELSE IF cancel_already_processed(elicitations_map[id])
       THEN UNCHANGED <<elicitations_map, history>>
       ELSE Store(id, cancel_metadata(elicitations_map[id], message))
    /\ UNCHANGED <<session_service_auth, now, reaper, issued>>

\* get_elicitation, get_collected_token and
\* is_session_authenticated_for_service only read; the operators of the same
\* names give what they return in the current state
GetElicitation(id) == UNCHANGED vars

GetCollectedToken(id) == UNCHANGED vars

IsSessionAuthenticated(session_id, service) == UNCHANGED vars

\* faulty variant: the entry is filed under the elicitation's id
Marked_UnderElicitationId(c, session_id, service, elicitation_id) ==
    LET inner == IF elicitation_id \in DOMAIN c THEN c[elicitation_id] ELSE <<>>
        entry == [authenticated |-> TRUE, elicitation_id |-> elicitation_id]
    IN Extend(c, elicitation_id, Extend(inner, service, entry))

\* the timestamp "authenticated_at" is written and never read: left out
Marked(c, session_id, service, elicitation_id) ==
    LET inner == IF session_id \in DOMAIN c THEN c[session_id] ELSE <<>>
        entry == [authenticated |-> TRUE, elicitation_id |-> elicitation_id]
    IN Extend(c, session_id, Extend(inner, service, entry))

mark_session_authenticated_for_service(session_id, service, elicitation_id) ==
    /\ session_service_auth' =
           Marked(session_service_auth, session_id, service, elicitation_id)
    /\ UNCHANGED <<elicitations_map, now, reaper, issued, history>>

\* faulty variant: the session's whole entry is deleted
clear_session_auth_for_service_WholeSession(session_id, service) ==
    /\ IF /\ session_id \in DOMAIN session_service_auth
          /\ service \in DOMAIN session_service_auth[session_id]
       THEN session_service_auth' = Remove(session_service_auth, session_id)
       ELSE UNCHANGED session_service_auth
    /\ UNCHANGED <<elicitations_map, now, reaper, issued, history>>

clear_session_auth_for_service(session_id, service) ==
    /\ IF /\ session_id \in DOMAIN session_service_auth
          /\ service \in DOMAIN session_service_auth[session_id]
       THEN session_service_auth' =
                [session_service_auth EXCEPT ![session_id] = Remove(@, service)]
       ELSE UNCHANGED session_service_auth
    /\ UNCHANGED <<elicitations_map, now, reaper, issued, history>>

-----------------------------------------------------------------------------
(* The cleanup thread: cleanup_loop and cleanup_old_elicitations *)

Sleeping(wake_at) ==
    [pc |-> "sleep", wake_at |-> wake_at, sweep_now |-> 0, di_used |-> 0,
     visited |-> {}, expired_ids |-> <<>>]

\* time.sleep returns; `now = datetime.now()`, `expired_ids = []`, and the
\* for statement takes an iterator over elicitations_map.items()
ReaperWake ==
    /\ reaper.pc = "sleep"
    /\ now = reaper.wake_at
    /\ reaper' = [reaper EXCEPT !.pc = "scan", !.sweep_now = now,
                                !.di_used = Cardinality(DOMAIN elicitations_map),
                                !.visited = {}, !.expired_ids = <<>>]
    /\ UNCHANGED <<elicitations_map, session_service_auth, now, issued, history>>

\* position of an id in the dictionary's insertion order
InsertionIndex(id) == CHOOSE k \in 1..Len(UUIDs) : UUIDs[k] = id

\* the items the dictionary iterator has not yielded yet
Unvisited == DOMAIN elicitations_map \ reaper.visited

\* one step of the for statement: the dictionary iterator raises RuntimeError
\* ("dictionary changed size during iteration") if the size differs from the
\* size it started with; cleanup_loop does not catch it, so the thread ends
ReaperScan ==
    /\ reaper.pc = "scan"
    /\ IF Cardinality(DOMAIN elicitations_map) # reaper.di_used
       THEN reaper' = [reaper EXCEPT !.pc = "dead"]
       ELSE IF Unvisited = {}
       THEN reaper' = [reaper EXCEPT !.pc = "delete"]
       ELSE LET elicitation_id ==
                    CHOOSE i \in Unvisited :
                        \A j \in Unvisited : InsertionIndex(i) <= InsertionIndex(j)
            IN reaper' =
                 [reaper EXCEPT
                    !.visited = @ \cup {elicitation_id},
                    !.expired_ids =
                        IF IsExpired(elicitations_map[elicitation_id],
                                     reaper.sweep_now)
                        THEN Append(@, elicitation_id)
                        ELSE @]
    /\ UNCHANGED <<elicitations_map, session_service_auth, now, issued, history>>

\* faulty variant: a deletion also drops the authentication entries
ReaperDelete_DropsAuth ==
    /\ reaper.pc = "delete"
    /\ IF reaper.expired_ids = <<>>
       THEN /\ reaper' = Sleeping(now + CLEANUP_INTERVAL_MINUTES)
            /\ UNCHANGED <<elicitations_map, session_service_auth>>
       ELSE /\ elicitations_map' = Remove(elicitations_map, Head(reaper.expired_ids))
            /\ session_service_auth' = <<>>
            /\ reaper' = [reaper EXCEPT !.expired_ids = Tail(@)]
    /\ UNCHANGED <<now, issued, history>>

\* faulty variant: the Record is emptied first and removed by a later step
ReaperDelete_InTwoSteps ==
    /\ reaper.pc = "delete"
    /\ IF reaper.expired_ids = <<>>
       THEN /\ reaper' = Sleeping(now + CLEANUP_INTERVAL_MINUTES)
            /\ UNCHANGED elicitations_map
       ELSE LET id == Head(reaper.expired_ids)
            IN IF elicitations_map[id].session_id # None
               THEN /\ elicitations_map' =
                          [elicitations_map EXCEPT ![id].session_id = None,
                                                   ![id].collected_token = None]
                    /\ UNCHANGED reaper
               ELSE /\ elicitations_map' = Remove(elicitations_map, id)
                    /\ reaper' = [reaper EXCEPT !.expired_ids = Tail(@)]
    /\ UNCHANGED <<session_service_auth, now, issued, history>>

\* one step of `for elicitation_id in expired_ids: del ...`; after the last
\* one the thread is back in time.sleep
ReaperDelete ==
    /\ reaper.pc = "delete"
    /\ IF reaper.expired_ids = <<>>
       THEN /\ reaper' = Sleeping(now + CLEANUP_INTERVAL_MINUTES)
            /\ UNCHANGED elicitations_map
       ELSE /\ elicitations_map' = Remove(elicitations_map, Head(reaper.expired_ids))
            /\ reaper' = [reaper EXCEPT !.expired_ids = Tail(@)]
    /\ UNCHANGED <<session_service_auth, now, issued, history>>

\* the clock advances, and not past the end of a sleep that is under way
Tick ==
    /\ reaper.pc \in {"sleep", "dead"}
    /\ now < MaxTime
    /\ reaper.pc = "sleep" => now < reaper.wake_at
    /\ LET t == Min(now + TickMinutes, MaxTime)
       IN now' = IF reaper.pc = "sleep" THEN Min(t, reaper.wake_at) ELSE t
    /\ UNCHANGED <<elicitations_map, session_service_auth, reaper, issued, history>>

-----------------------------------------------------------------------------

\* no list_private_repos call has been made yet
NoToolCall ==
    [pc |-> "idle", session |-> None, session_id |-> None,
     created_for |-> <<>>, di_used |-> 0, visited |-> {},
     elicitation_id |-> None,
     external_url |-> None, token_url |-> <<>>,
     github_token |-> None, client_token |-> None, result |-> None,
     returned_id |-> None, returned_url |-> <<>>]

Init ==
    /\ elicitations_map = <<>>
    /\ session_service_auth = <<>>
    /\ now = 0
    /\ reaper = Sleeping(CLEANUP_INTERVAL_MINUTES)
    /\ issued = <<>>
    /\ history = <<>>
    /\ insecure_mode = FALSE
    /\ tool = NoToolCall

\* the ids on which update_progress is still called: progress below `bound`
Below(bound) ==
    {id \in IdArgs :
        id \in DOMAIN elicitations_map => elicitations_map[id].progress < bound}

(* Spec: the Manager's Record operations with every kind of argument, as the  *)
(* event loop runs them before the cleanup thread's first sweep.              *)

Next ==
    \/ \E s \in Sessions :
           generate_tracked_elicitation(s, DefaultMessage) /\ UNCHANGED caller
    \/ \E id \in Below(MaxProgress), m \in MessageArgs :
           update_elicitation_progress(id, m) /\ UNCHANGED caller
    \/ \E id \in IdArgs, m \in MessageArgs, t \in TokenArgs :
           complete_elicitation(id, m, t) /\ UNCHANGED caller
    \/ \E id \in IdArgs, m \in MessageArgs :
           accept_elicitation(id, m) /\ UNCHANGED caller
    \/ \E id \in IdArgs, m \in MessageArgs :
           decline_elicitation(id, m) /\ UNCHANGED caller
    \/ \E id \in IdArgs, m \in MessageArgs :
           cancel_elicitation(id, m) /\ UNCHANGED caller
    \/ \E id \in IdArgs : GetElicitation(id)
    \/ \E id \in IdArgs : GetCollectedToken(id)

Spec == Init /\ [][Next]_vars

(* SpecTTL: the Manager's operations together with the cleanup thread and the *)
(* clock, over more than TTL + one sweep interval; one session, complete      *)
(* always with the same token, and no message argument.                       *)

TTLSessions == {"s1"}
TTLTokenArgs == {"ghp_a"}

NextTTL ==
    \/ /\ now <= MaxCreateTime
       /\ \E s \in TTLSessions : generate_tracked_elicitation(s, DefaultMessage)
       /\ UNCHANGED caller
    \/ \E id \in Below(TTLMaxProgress) :
           update_elicitation_progress(id, None) /\ UNCHANGED caller
    \/ \E id \in IdArgs, t \in TTLTokenArgs :
           complete_elicitation(id, None, t) /\ UNCHANGED caller
    \/ \E id \in IdArgs : accept_elicitation(id, None) /\ UNCHANGED caller
    \/ \E id \in IdArgs : decline_elicitation(id, None) /\ UNCHANGED caller
    \/ \E id \in IdArgs : cancel_elicitation(id, None) /\ UNCHANGED caller
    \/ \E id \in IdArgs : GetElicitation(id)
    \/ \E id \in IdArgs : GetCollectedToken(id)
    \/ \E s \in TTLSessions, svc \in Services : IsSessionAuthenticated(s, svc)
    \/ \E s \in TTLSessions, svc \in Services, id \in DOMAIN issued :
           mark_session_authenticated_for_service(s, svc, id) /\ UNCHANGED caller
    \/ \E s \in TTLSessions, svc \in Services :
           clear_session_auth_for_service(s, svc) /\ UNCHANGED caller
    \/ ReaperWake /\ UNCHANGED caller
    \/ ReaperScan /\ UNCHANGED caller
    \/ ReaperDelete /\ UNCHANGED caller
    \/ Tick /\ UNCHANGED caller

SpecTTL == Init /\ [][NextTTL]_vars

(* SpecAuth: the Session Auth Cache under every call of its three operations, *)
(* for two sessions and two services, next to Records that are created and    *)
(* accepted.                                                                  *)

AuthServices == {"github", "other-service"}

NextAuth ==
    \/ \E s \in Sessions :
           generate_tracked_elicitation(s, DefaultMessage) /\ UNCHANGED caller
    \/ \E id \in IdArgs : accept_elicitation(id, None) /\ UNCHANGED caller
    \/ \E s \in Sessions, svc \in AuthServices : IsSessionAuthenticated(s, svc)
    \/ \E s \in Sessions, svc \in AuthServices, id \in IdArgs :
           mark_session_authenticated_for_service(s, svc, id) /\ UNCHANGED caller
    \/ \E s \in Sessions, svc \in AuthServices :
           clear_session_auth_for_service(s, svc) /\ UNCHANGED caller

SpecAuth == Init /\ [][NextAuth]_vars

(* SpecNotify: Records of one session to which the invocation layer attaches  *)
(* a notification channel, under update, complete, accept, decline and        *)
(* cancel, with a sender that can raise at any call.                          *)

NotifyMaxProgress == 2
ProgressToken == "progress-token"
NotifyTokenArgs == {None, "ghp_a"}

\* the invocation layer wires a progress token and a sender to a Record
AttachChannel(id) ==
    /\ id \in DOMAIN elicitations_map
    /\ ~HasChannel(elicitations_map[id])
    /\ elicitations_map' =
           [elicitations_map EXCEPT
               ![id].progress_token = ProgressToken,
               ![id].notification_sender = [NoSender EXCEPT !.callable = TRUE]]
    /\ UNCHANGED <<session_service_auth, now, reaper, issued, history>>

NextNotify ==
    \/ generate_tracked_elicitation("s1", DefaultMessage) /\ UNCHANGED caller
    \/ \E id \in DOMAIN elicitations_map : AttachChannel(id) /\ UNCHANGED caller
    \/ \E id \in Below(NotifyMaxProgress) :
           update_elicitation_progress(id, "msg") /\ UNCHANGED caller
    \/ \E id \in IdArgs, t \in NotifyTokenArgs :
           complete_elicitation(id, None, t) /\ UNCHANGED caller
    \/ \E id \in IdArgs : accept_elicitation(id, None) /\ UNCHANGED caller
    \/ \E id \in IdArgs : decline_elicitation(id, None) /\ UNCHANGED caller
    \/ \E id \in IdArgs : cancel_elicitation(id, None) /\ UNCHANGED caller

SpecNotify == Init /\ [][NextNotify]_vars

-----------------------------------------------------------------------------
(* The tool list_private_repos and the HTTP routes of core/server.py.  Each   *)
(* runs on the event loop: the tool is one step up to `await ctx.elicit_url`  *)
(* and one step from the answer to its return; a route handler is one step.   *)

ToolMaxProgress == 1   \* SpecTool: the form is not fetched for a Record past this progress

ToolMessage == "GitHub token collection for repository access"
FormGetMessage == "Waiting for you to submit your GitHub token..."
FormPostMessage == "GitHub token validated for user"
PortalAcceptMessage == "External portal accepted elicitation"
PortalDeclineMessage == "External portal declined elicitation"
PortalCancelMessage == "External portal cancelled elicitation"

\* GITHUB_OAUTH_TOKEN as GitHub sees it when the tool validates it
StaticConfigs == {"absent", "invalid", "valid"}

\* Config.GITHUB_OAUTH_TOKEN
ConfiguredToken(static) ==
    IF static = "valid" THEN "gho_static"
    ELSE IF static = "invalid" THEN "gho_revoked"
    ELSE None

ValueError == "<ValueError>"

\* faulty variant: the configured token is preferred to the parameter
get_access_token_ConfigFirst(token, static) ==
    IF Truthy(ConfiguredToken(static)) THEN ConfiguredToken(static)
    ELSE IF Truthy(token) THEN token
    ELSE ValueError

\* Config.get_access_token(token), as GitHubClient.__init__ calls it
get_access_token(token, static) ==
    IF Truthy(token) THEN token
    ELSE IF Truthy(ConfiguredToken(static)) THEN ConfiguredToken(static)
    ELSE ValueError

\* the bearer token of the request's Authorization header
JWT == "jwt"

\* what the client answers to ctx.elicit_url; "raise" is the call failing
ElicitOutcomes == {"accept", "decline", "cancel", "raise"}

\* the githubToken field of a form POST, and what each value starts with
FormTokens == {None, "xyz_c", "ghs_x", "ghp_a", "gho_b"}
PrefixOf == [xyz_c |-> "xyz_", ghs_x |-> "ghs_", ghp_a |-> "ghp_", gho_b |-> "gho_"]
RecognisedPrefixes == {"ghp_", "gho_", "ghu_", "ghs_", "ghr_"}

\* the tokens GitHub's /user endpoint answers 200 to: "xyz_c" is a live token
\* of a format the form does not recognise, "ghs_x" a well-formed dead one
GitHubAccepts == {"xyz_c", "ghp_a", "gho_b"}

\* faulty variant: every format is recognised
startswith_recognised_Any(github_token) == TRUE

\* github_token.startswith(('ghp_', 'gho_', 'ghu_', 'ghs_', 'ghr_'))
startswith_recognised(github_token) == PrefixOf[github_token] \in RecognisedPrefixes

\* the Records the tool's scan of elicitations_map accepts for `session_id`
ReusableIds(m, session_id) ==
    {id \in DOMAIN m : /\ m[id].session_id = session_id
                       /\ m[id].status = "complete"
                       /\ m[id].token_validated}

\* the scan: the token of the first such Record in the dictionary's order
scan_token(m, session_id) ==
    IF ReusableIds(m, session_id) = {}
    THEN None
    ELSE m[CHOOSE i \in ReusableIds(m, session_id) :
               \A j \in ReusableIds(m, session_id) :
                   InsertionIndex(i) <= InsertionIndex(j)].collected_token

\* EXTERNAL_PORTAL_URL as os.getenv gives it: unset, or the portal's URL
ExternalPortalUrls == {None, "https://portal.example/authorize"}

\* faulty variant: the local form URL without its id parameter
get_elicitation_url_NoId(external_url, elicitation_id) ==
    IF Truthy(external_url)
    THEN <<external_url>>
    ELSE <<"http://localhost:8000/github-token-form">>

\* get_elicitation_url; a URL is the sequence of the pieces it is made of
get_elicitation_url(external_url, elicitation_id) ==
    IF Truthy(external_url)
    THEN <<external_url>>
    ELSE <<"http://localhost:8000/github-token-form?id=", elicitation_id>>

\* the tool returns `result` without building a GitHub client
Return(t, result) == [t EXCEPT !.pc = "done", !.result = result]

\* faulty variant: the pending result without the URL
ReturnPending_NoUrl(t) ==
    [t EXCEPT !.pc = "done", !.result = "pending",
              !.returned_id = t.elicitation_id]

\* the tool returns the pending result, with "elicitation_id" and "url"
ReturnPending(t) ==
    [t EXCEPT !.pc = "done", !.result = "pending",
              !.returned_id = t.elicitation_id, !.returned_url = t.token_url]

\* faulty variant: the ValueError of the client's constructor is not caught
GitHubCall_ValueErrorEscapes(t, static, api_ok) ==
    LET outcome == IF api_ok THEN "repositories" ELSE "GitHub API Error"
        access_token == get_access_token(t.github_token, static)
    IN IF insecure_mode
       THEN [t EXCEPT !.pc = "done", !.client_token = JWT, !.result = outcome]
       ELSE IF access_token = ValueError
       THEN [t EXCEPT !.pc = "raised", !.result = ValueError]
       ELSE [t EXCEPT !.pc = "done", !.client_token = access_token,
                      !.result = outcome]

\* "Initialize GitHub client" and list_repositories, to the tool's return
GitHubCall(t, static, api_ok) ==
    LET outcome == IF api_ok THEN "repositories" ELSE "GitHub API Error"
        access_token == get_access_token(t.github_token, static)
    IN IF insecure_mode
       THEN [t EXCEPT !.pc = "done", !.client_token = JWT, !.result = outcome]
       ELSE IF access_token = ValueError
       THEN Return(t, "Configuration Error")
       ELSE [t EXCEPT !.pc = "done", !.client_token = access_token,
                      !.result = outcome]

\* the call `t`, past its search for a token: the elicitation is created and
\* ctx.elicit_url awaited, or the GitHub client is built
Proceed(t, needs_elicitation, static, api_ok) ==
    IF needs_elicitation
    THEN /\ generate_tracked_elicitation(t.session_id, ToolMessage)
         /\ \E external_url \in ExternalPortalUrls :
                LET elicitation_id == UUIDs[Cardinality(DOMAIN issued) + 1]
                IN tool' = [t EXCEPT
                              !.pc = "await",
                              !.elicitation_id = elicitation_id,
                              !.created_for = Extend(@, elicitation_id, t.session),
                              !.external_url = external_url,
                              !.token_url = get_elicitation_url(
                                                external_url, elicitation_id)]
    ELSE /\ tool' = GitHubCall(t, static, api_ok)
         /\ UNCHANGED <<elicitations_map, session_service_auth, now, reaper,
                        issued, history>>

\* the session objects that have a session_id attribute, with its value, and
\* session objects that have none
session_id_attr == [s1 |-> "s1", s2 |-> "s2"]
PlainSessions == {"a1", "a2"}

\* getattr(ctx.request_context.session, 'session_id', 'unknown')
getattr_session_id(session) ==
    IF session \in DOMAIN session_id_attr THEN session_id_attr[session]
    ELSE "unknown"

\* list_private_repos, called in the session `session`, from its start to
\* `await ctx.elicit_url(...)`, or to its return when no elicitation is needed;
\* created_for remembers the session in which each Record was created
ToolCall(session, static, api_ok) ==
    /\ tool.pc \in {"idle", "done"}
    /\ LET session_id == getattr_session_id(session)
           github_token ==
               IF insecure_mode THEN None
               ELSE IF static = "valid" THEN ConfiguredToken(static)
               ELSE scan_token(elicitations_map, session_id)
           needs_elicitation ==
               IF insecure_mode
               THEN ~is_session_authenticated_for_service(
                         session_service_auth, session_id, "github")
               ELSE ~Truthy(github_token)
           t == [NoToolCall EXCEPT !.session = session,
                                   !.session_id = session_id,
                                   !.created_for = tool.created_for,
                                   !.github_token = github_token]
       IN Proceed(t, needs_elicitation, static, api_ok)
    /\ UNCHANGED insecure_mode

\* the same call in secure mode without a valid configured token, up to the
\* for statement taking an iterator over elicitations_map.items(): the cleanup
\* thread can run between this and each step of the loop
ToolScanStart(session) ==
    /\ tool.pc \in {"idle", "done"}
    /\ ~insecure_mode
    /\ tool' = [NoToolCall EXCEPT
                  !.pc = "scan",
                  !.session = session,
                  !.session_id = getattr_session_id(session),
                  !.created_for = tool.created_for,
                  !.di_used = Cardinality(DOMAIN elicitations_map)]
    /\ UNCHANGED <<elicitations_map, session_service_auth, now, reaper, issued,
                   history, insecure_mode>>

\* one step of the tool's for statement: the dictionary iterator raises
\* RuntimeError if the size differs from the size it started with, which the
\* tool's `except Exception` turns into the Unexpected Error result; a Record
\* that matches ends the loop with its token, the end of the dictionary ends
\* it without one
ToolScanStep(static, api_ok) ==
    /\ tool.pc = "scan"
    /\ LET unvisited == DOMAIN elicitations_map \ tool.visited
           t == [tool EXCEPT !.di_used = 0, !.visited = {}]
       IN IF Cardinality(DOMAIN elicitations_map) # tool.di_used
          THEN /\ tool' = Return(t, "Unexpected Error")
               /\ UNCHANGED <<elicitations_map, session_service_auth, now,
                              reaper, issued, history>>
          ELSE IF unvisited = {}
          THEN Proceed(t, TRUE, static, api_ok)
          ELSE LET elicitation_id ==
                       CHOOSE i \in unvisited :
                           \A j \in unvisited :
                               InsertionIndex(i) <= InsertionIndex(j)
               IN IF elicitation_id \in ReusableIds(elicitations_map,
                                                    tool.session_id)
                  THEN Proceed([t EXCEPT !.github_token =
                                   elicitations_map[elicitation_id].collected_token],
                               FALSE, static, api_ok)
                  ELSE /\ tool' = [tool EXCEPT !.visited = @ \cup {elicitation_id}]
                       /\ UNCHANGED <<elicitations_map, session_service_auth,
                                      now, reaper, issued, history>>
    /\ UNCHANGED insecure_mode

\* list_private_repos from the answer of ctx.elicit_url to its return
ToolResume(action, static, api_ok) ==
    /\ tool.pc = "await"
    /\ LET metadata == get_elicitation(elicitations_map, tool.elicitation_id)
           \* `if metadata and ...`: the lookup found a Record
           found == tool.elicitation_id \in DOMAIN elicitations_map
           marked == Marked(session_service_auth, tool.session_id, "github",
                            tool.elicitation_id)
           github_token ==
               get_collected_token(elicitations_map, tool.elicitation_id)
       IN IF action = "raise"
          THEN /\ tool' = Return(tool, "Unexpected Error")
               /\ UNCHANGED session_service_auth
          ELSE IF action = "accept"
          THEN IF found /\ metadata.status = "complete"
               THEN IF insecure_mode
                    THEN /\ session_service_auth' = marked
                         /\ tool' = GitHubCall(tool, static, api_ok)
                    ELSE /\ UNCHANGED session_service_auth
                         /\ tool' =
                              IF Truthy(github_token)
                              THEN GitHubCall(
                                       [tool EXCEPT !.github_token = github_token],
                                       static, api_ok)
                              ELSE Return(
                                       [tool EXCEPT !.github_token = github_token],
                                       "Token Collection Failed")
               ELSE IF found /\ metadata.status = "accepted"
               THEN IF insecure_mode
                    THEN /\ session_service_auth' = marked
                         /\ tool' = GitHubCall(tool, static, api_ok)
                    ELSE /\ UNCHANGED session_service_auth
                         /\ tool' = GitHubCall(tool, static, api_ok)
               ELSE /\ tool' = ReturnPending(tool)
                    /\ UNCHANGED session_service_auth
          ELSE IF action = "decline"
          THEN /\ tool' = Return(tool, "Access Denied")
               /\ UNCHANGED session_service_auth
          ELSE /\ tool' = Return(tool, "Access Cancelled")
               /\ UNCHANGED session_service_auth
    /\ UNCHANGED <<elicitations_map, now, reaper, issued, history, insecure_mode>>

\* GET /github-token-form?id=...
github_token_form_get(elicitation_id) ==
    /\ IF ~Truthy(elicitation_id)
       THEN UNCHANGED <<elicitations_map, session_service_auth, now, reaper,
                        issued, history>>
       ELSE update_elicitation_progress(elicitation_id, FormGetMessage)
    /\ UNCHANGED caller

\* POST /github-token-form; upstream_ok: GitHub's /user accepts the token
github_token_form_post(github_token, elicitation, upstream_ok) ==
    /\ IF \/ ~Truthy(github_token)
          \/ ~Truthy(elicitation)
          \/ ~startswith_recognised(github_token)
          \/ ~upstream_ok
       THEN UNCHANGED <<elicitations_map, session_service_auth, now, reaper,
                        issued, history>>
       ELSE complete_elicitation(elicitation, FormPostMessage, github_token)
    /\ UNCHANGED caller

\* faulty variant: the callback takes relaxed-trust mode to be on
callback_insecure_mode_AlwaysOn == TRUE

\* the callback's own reading of INSECURE from the environment
callback_insecure_mode == insecure_mode

\* what POST /elicitation/callback answers: the HTTPException of a rejected
\* request is caught by the handler's `except Exception` and becomes a 500;
\* every other request gets the JSON body with "status": "success"
callback_response(elicitation_id, action) ==
    IF ~Truthy(elicitation_id) \/ ~Truthy(action)
    THEN "500 Internal server error"
    ELSE IF action \notin {"accept", "decline", "cancel"}
    THEN "500 Internal server error"
    ELSE "success"

\* POST /elicitation/callback
elicitation_callback(elicitation_id, action) ==
    /\ IF ~Truthy(elicitation_id) \/ ~Truthy(action)
       THEN UNCHANGED <<elicitations_map, session_service_auth, history>>
       ELSE IF action \notin {"accept", "decline", "cancel"}
       THEN UNCHANGED <<elicitations_map, session_service_auth, history>>
       ELSE IF action = "accept"
       THEN /\ IF elicitation_id \notin DOMAIN elicitations_map
               THEN UNCHANGED <<elicitations_map, history>>
               ELSE IF accept_already_processed(elicitations_map[elicitation_id])
               THEN UNCHANGED <<elicitations_map, history>>
               ELSE Store(elicitation_id,
                          accept_metadata(elicitations_map[elicitation_id],
                                          PortalAcceptMessage))
            /\ IF callback_insecure_mode
                     /\ elicitation_id \in DOMAIN elicitations_map
               THEN session_service_auth' =
                        Marked(session_service_auth,
                               elicitations_map[elicitation_id].session_id,
                               "github", elicitation_id)
               ELSE UNCHANGED session_service_auth
       ELSE IF action = "decline"
       THEN /\ IF elicitation_id \notin DOMAIN elicitations_map
               THEN UNCHANGED <<elicitations_map, history>>
               ELSE IF decline_already_processed(elicitations_map[elicitation_id])
               THEN UNCHANGED <<elicitations_map, history>>
               ELSE Store(elicitation_id,
                          decline_metadata(elicitations_map[elicitation_id],
                                           PortalDeclineMessage))
            /\ UNCHANGED session_service_auth
       ELSE /\ IF elicitation_id \notin DOMAIN elicitations_map
               THEN UNCHANGED <<elicitations_map, history>>
               ELSE IF cancel_already_processed(elicitations_map[elicitation_id])
               THEN UNCHANGED <<elicitations_map, history>>
               ELSE Store(elicitation_id,
                          cancel_metadata(elicitations_map[elicitation_id],
                                          PortalCancelMessage))
            /\ UNCHANGED session_service_auth
    /\ UNCHANGED <<now, reaper, issued, caller>>

(* SpecTool: tool calls of two sessions, one at a time, with the form and the *)
(* portal callback arriving at any moment, in either trust mode; the valid    *)
(* token posted for a Record is the token of the user of the Record's session.*)

CallbackActions == {None, "approve", "accept", "decline", "cancel"}

\* the token each session's user owns: a user submits no other valid token
UserToken == [s1 |-> "ghp_a", s2 |-> "gho_b", a1 |-> "ghp_a", a2 |-> "gho_b"]

\* the githubToken values posted for `id`
PostTokens(id) ==
    {t \in FormTokens :
        (/\ t \in {UserToken[u] : u \in DOMAIN UserToken}
         /\ id \in DOMAIN elicitations_map)
            => t = UserToken[tool.created_for[id]]}

\* the outcomes of the form's check of `github_token` against GitHub: a live
\* token can still fail it (network error), a dead one never passes it
UpstreamAnswers(github_token) ==
    IF github_token \in GitHubAccepts THEN BOOLEAN ELSE {FALSE}

InitTool ==
    /\ elicitations_map = <<>>
    /\ session_service_auth = <<>>
    /\ now = 0
    /\ reaper = Sleeping(CLEANUP_INTERVAL_MINUTES)
    /\ issued = <<>>
    /\ history = <<>>
    /\ insecure_mode \in BOOLEAN
    /\ tool = NoToolCall

NextTool ==
    \/ \E s \in Sessions, static \in StaticConfigs, api_ok \in BOOLEAN :
           ToolCall(s, static, api_ok)
    \/ \E a \in ElicitOutcomes, static \in StaticConfigs, api_ok \in BOOLEAN :
           ToolResume(a, static, api_ok)
    \/ \E id \in Below(ToolMaxProgress) \cup {None} : github_token_form_get(id)
    \/ \E id \in IdArgs \cup {None} :
           \E t \in PostTokens(id) :
               \E upstream_ok \in UpstreamAnswers(t) :
                   github_token_form_post(t, id, upstream_ok)
    \/ \E id \in IdArgs \cup {None}, a \in CallbackActions :
           elicitation_callback(id, a)

SpecTool == InitTool /\ [][NextTool]_vars

(* SpecPlain: the tool called in two sessions whose session objects have no  *)
(* session_id attribute, with the form and the portal callback.              *)

NextPlain ==
    \/ \E s \in PlainSessions, static \in StaticConfigs, api_ok \in BOOLEAN :
           ToolCall(s, static, api_ok)
    \/ \E a \in ElicitOutcomes, static \in StaticConfigs, api_ok \in BOOLEAN :
           ToolResume(a, static, api_ok)
    \/ \E id \in IdArgs \cup {None} :
           \E t \in PostTokens(id) :
               \E upstream_ok \in UpstreamAnswers(t) :
                   github_token_form_post(t, id, upstream_ok)
    \/ \E id \in IdArgs \cup {None}, a \in CallbackActions :
           elicitation_callback(id, a)

SpecPlain == InitTool /\ [][NextPlain]_vars

(* SpecScan: secure mode without a configured token; the tool's search of the *)
(* Store runs step by step on the event loop while the cleanup thread sweeps, *)
(* over more than TTL + one sweep interval; the search takes no time on the   *)
(* clock.                                                                     *)

ScanSessions == {"s1"}

NextScan ==
    \/ \E s \in ScanSessions : ToolScanStart(s)
    \/ \E api_ok \in BOOLEAN : ToolScanStep("absent", api_ok)
    \/ \E a \in ElicitOutcomes, api_ok \in BOOLEAN : ToolResume(a, "absent", api_ok)
    \/ /\ tool.pc # "scan"
       /\ \E id \in DOMAIN elicitations_map :
              github_token_form_post(UserToken[tool.created_for[id]], id, TRUE)
    \/ ReaperWake /\ UNCHANGED caller
    \/ ReaperScan /\ UNCHANGED caller
    \/ ReaperDelete /\ UNCHANGED caller
    \/ tool.pc # "scan" /\ Tick /\ UNCHANGED caller

SpecScan == Init /\ [][NextScan]_vars

-----------------------------------------------------------------------------
(* Properties *)

\* the step is a call of complete, accept, decline or cancel on `id`
IsResolutionCall(id) ==
    \/ \E m \in MessageArgs, t \in TokenArgs : complete_elicitation(id, m, t)
    \/ \E m \in MessageArgs : accept_elicitation(id, m)
    \/ \E m \in MessageArgs : decline_elicitation(id, m)
    \/ \E m \in MessageArgs : cancel_elicitation(id, m)

\* the step is a call on `id` that got past the method's early returns
IsAcceptedCall(id) ==
    /\ id \in DOMAIN elicitations_map
    /\ \/ /\ ~update_already_complete(elicitations_map[id])
          /\ \E m \in MessageArgs : update_elicitation_progress(id, m)
       \/ /\ ~complete_already_complete(elicitations_map[id])
          /\ \E m \in MessageArgs, t \in TokenArgs : complete_elicitation(id, m, t)
       \/ /\ ~accept_already_processed(elicitations_map[id])
          /\ \E m \in MessageArgs : accept_elicitation(id, m)
       \/ /\ ~decline_already_processed(elicitations_map[id])
          /\ \E m \in MessageArgs : decline_elicitation(id, m)
       \/ /\ ~cancel_already_processed(elicitations_map[id])
          /\ \E m \in MessageArgs : cancel_elicitation(id, m)

\* C1: once a Record's status has left pending, no step changes its status,
\* and a complete/accept/decline/cancel call leaves its progress unchanged.
C1_TerminalStatusFrozen ==
    [][\A id \in DOMAIN elicitations_map \cap DOMAIN elicitations_map' :
          elicitations_map[id].status # "pending" =>
             /\ elicitations_map'[id].status = elicitations_map[id].status
             /\ IsResolutionCall(id) =>
                   elicitations_map'[id].progress = elicitations_map[id].progress
      ]_vars

\* C2: of all the complete/accept/decline/cancel calls made on one Record, at
\* most one performs a status transition; the others change nothing.
C2_SingleTransition ==
    \A id \in DOMAIN history : history[id].transitions <= 1

\* C3: a Record whose Bridge was resolved by accept, decline or cancel never
\* yields a token from get_collected_token, whatever calls follow.
C3_TokenIsolation ==
    \A id \in DOMAIN elicitations_map :
        history[id].resolved_via \in {"accepted", "declined", "cancelled"} =>
            get_collected_token(elicitations_map, id) = None

\* C4: the Bridge of a Record is resolved at most once: set_result is called at
\* most once on it and never raises InvalidStateError.
C4_ResolvedAtMostOnce ==
    \A id \in DOMAIN elicitations_map :
        LET f == elicitations_map[id].completed_promise
        IN /\ f.set_result_calls <= 1
           /\ ~f.invalid_state
           /\ f.done <=> f.set_result_calls = 1

\* a second resolution attempt was made on a resolved Bridge, and skipped
C4_Witness ==
    \E id \in DOMAIN elicitations_map :
        /\ history[id].transitions = 2
        /\ elicitations_map[id].completed_promise.set_result_calls = 1

\* C5: a Record whose status is accepted, declined or cancelled has no
\* collected token and token_validated false.
C5_NoTokenUnlessComplete ==
    \A id \in DOMAIN elicitations_map :
        elicitations_map[id].status \in {"accepted", "declined", "cancelled"} =>
            /\ elicitations_map[id].collected_token = None
            /\ ~elicitations_map[id].token_validated

\* Records in each of the three statuses, next to a Record that holds a token
C5_Witness ==
    /\ \E id \in DOMAIN elicitations_map :
           elicitations_map[id].status \in {"accepted", "declined", "cancelled"}
    /\ \E id \in DOMAIN elicitations_map :
           elicitations_map[id].collected_token # None

\* C6: every Record with token_validated true has status complete.
C6_ValidatedImpliesComplete ==
    \A id \in DOMAIN elicitations_map :
        elicitations_map[id].token_validated =>
            elicitations_map[id].status = "complete"

\* a Record completed with a token, after several calls on it
C6_Witness ==
    \E id \in DOMAIN elicitations_map :
        /\ elicitations_map[id].token_validated
        /\ elicitations_map[id].progress >= 2

\* the condition under which get_collected_token is to return the token
HoldsValidatedToken(id) ==
    /\ id \in DOMAIN elicitations_map
    /\ elicitations_map[id].status = "complete"
    /\ elicitations_map[id].token_validated

\* C7: get_collected_token(id) returns the Record's collected token exactly
\* when the Record exists, is complete and token_validated; otherwise absent.
C7_ReturnsToken ==
    \A id \in IdArgs :
        LET r == get_collected_token(elicitations_map, id)
        IN IF HoldsValidatedToken(id)
           THEN r = elicitations_map[id].collected_token /\ Truthy(r)
           ELSE r = None

\* C7: ... and a get_collected_token call never modifies the Store.
C7_GetCollectedToken ==
    /\ []C7_ReturnsToken
    /\ [][\A id \in IdArgs :
             GetCollectedToken(id) => UNCHANGED <<elicitations_map,
                                                  session_service_auth>>]_vars

\* every case of the claim in one state: a token returned for one Record, and
\* absent for an unknown id and for a Record that is not complete
C7_Witness ==
    /\ \E id \in DOMAIN elicitations_map :
           get_collected_token(elicitations_map, id) = "ghp_b"
    /\ \E id \in DOMAIN elicitations_map :
           /\ elicitations_map[id].status \in {"declined", "pending", "accepted"}
           /\ get_collected_token(elicitations_map, id) = None
    /\ get_collected_token(elicitations_map, UnknownId) = None

\* C8: progress starts at 0, never decreases, and increases by exactly one on
\* every update_progress/complete/accept/decline/cancel call that is accepted.
C8_ProgressMonotone ==
    [][\A id \in DOMAIN elicitations_map' :
          IF id \notin DOMAIN elicitations_map
          THEN elicitations_map'[id].progress = 0
          ELSE /\ elicitations_map'[id].progress >= elicitations_map[id].progress
               /\ \/ elicitations_map'[id].progress =
                         elicitations_map[id].progress + 1
                  \/ ~IsAcceptedCall(id)
      ]_vars

\* update_progress accepted twice, then a resolution: progress 3
C8_Witness ==
    \E id \in DOMAIN elicitations_map :
        /\ elicitations_map[id].progress = MaxProgress + 1
        /\ history[id].transitions = 1

\* C9: a Record created at T is in the Store at any time before T + TTL and is
\* not in it at any time after T + TTL + one sweep interval.
C9_EvictedAfterTTL ==
    \A id \in DOMAIN issued :
        /\ now < issued[id] + TTLMinutes => id \in DOMAIN elicitations_map
        /\ now > issued[id] + TTLMinutes + CLEANUP_INTERVAL_MINUTES =>
               id \notin DOMAIN elicitations_map

\* C10: a Record leaves the Store only in a deletion step of the sweep, and
\* only when it is older than the TTL.
C10_RemovedOnlyBySweep ==
    [][\A id \in DOMAIN elicitations_map :
          id \notin DOMAIN elicitations_map' =>
             /\ ReaperDelete
             /\ now - elicitations_map[id].created_at > TTLMinutes
      ]_vars

\* a Record that reached a terminal status has been evicted, and another
\* terminal Record of full TTL age is still readable
C10_Witness ==
    /\ \E id \in DOMAIN issued :
           /\ id \notin DOMAIN elicitations_map
           /\ history[id].transitions >= 1
    /\ \E id \in DOMAIN elicitations_map :
           /\ elicitations_map[id].status # "pending"
           /\ now - elicitations_map[id].created_at >= TTLMinutes

\* the fields of a Record
RecordFields ==
    {"status", "progress", "completed_promise", "created_at", "session_id",
     "message", "progress_token", "notification_sender", "collected_token",
     "token_validated"}

\* the cleanup thread is inside cleanup_old_elicitations
Sweeping == reaper.pc \in {"scan", "delete"}

\* what a lookup of `id` gives in the current state: the whole Record, or absent
LookupSeesWholeOrAbsent(id) ==
    LET r == get_elicitation(elicitations_map, id)
        t == get_collected_token(elicitations_map, id)
    IN IF id \in DOMAIN elicitations_map
       THEN /\ r = elicitations_map[id]
            /\ DOMAIN r = RecordFields
            /\ t = IF HoldsValidatedToken(id) THEN r.collected_token ELSE None
       ELSE r = None /\ t = None

\* C11: a lookup by id (get, get_collected_token) made at any point during a
\* sweep returns the whole Record as the Manager last wrote it, or absent: a
\* step of the sweep never changes a Record that stays in the Store, and
\* removes a Record whole.
C11_LookupDuringSweep ==
    /\ [](Sweeping => \A id \in IdArgs : LookupSeesWholeOrAbsent(id))
    /\ [][(ReaperWake \/ ReaperScan \/ ReaperDelete) =>
             /\ \A id \in DOMAIN elicitations_map' :
                    /\ id \in DOMAIN elicitations_map
                    /\ elicitations_map'[id] = elicitations_map[id]
             /\ history' = history
      ]_vars

\* in the middle of a sweep's deletions: one Record already gone, another one,
\* holding a token, still readable
C11_Witness ==
    /\ reaper.pc = "delete"
    /\ \E id \in DOMAIN issued : id \notin DOMAIN elicitations_map
    /\ \E id \in DOMAIN elicitations_map :
           get_collected_token(elicitations_map, id) # None

\* C12: once is_authenticated(s, svc) is true it stays true through Record
\* operations and sweeps, the eviction of the originating Record included; a
\* step that makes it false is clear_authenticated(s, svc) for that pair.
C12_AuthOutlivesRecord ==
    [][\A s \in Sessions, svc \in Services :
          (/\ is_session_authenticated_for_service(session_service_auth, s, svc)
           /\ ~is_session_authenticated_for_service(session_service_auth', s, svc))
          => clear_session_auth_for_service(s, svc)
      ]_vars

\* a session is authenticated and the Record it was authenticated through has
\* been evicted by a sweep
C12_Witness ==
    \E s \in Sessions, svc \in Services :
        /\ is_session_authenticated_for_service(session_service_auth, s, svc)
        /\ LET id == session_service_auth[s][svc].elicitation_id
           IN id \in DOMAIN issued /\ id \notin DOMAIN elicitations_map

\* is_authenticated gives the same for every pair other than (s, svc)
OtherPairsUnchanged(s, svc) ==
    \A s2 \in Sessions, svc2 \in AuthServices :
        <<s2, svc2>> # <<s, svc>> =>
            is_session_authenticated_for_service(session_service_auth', s2, svc2)
              = is_session_authenticated_for_service(session_service_auth, s2, svc2)

\* C13: is_authenticated(s, svc) is false initially, true after
\* mark_authenticated(s, svc, id) and false after clear_authenticated(s, svc);
\* mark and clear leave every other pair and every Record unchanged, and
\* clear on a pair that is not present changes nothing.
C13_AuthCacheAlgebra ==
    /\ \A s \in Sessions, svc \in AuthServices :
           ~is_session_authenticated_for_service(session_service_auth, s, svc)
    /\ [][\A s \in Sessions, svc \in AuthServices :
             /\ (\E id \in IdArgs :
                     mark_session_authenticated_for_service(s, svc, id)) =>
                   /\ is_session_authenticated_for_service(
                          session_service_auth', s, svc)
                   /\ OtherPairsUnchanged(s, svc)
                   /\ elicitations_map' = elicitations_map
             /\ clear_session_auth_for_service(s, svc) =>
                   /\ ~is_session_authenticated_for_service(
                          session_service_auth', s, svc)
                   /\ OtherPairsUnchanged(s, svc)
                   /\ elicitations_map' = elicitations_map
                   /\ ~is_session_authenticated_for_service(
                          session_service_auth, s, svc)
                      => session_service_auth' = session_service_auth
      ]_vars

\* one session marked for both services and cleared for one of them, the
\* other session marked and cleared, with a Record in the Store
C13_Witness ==
    /\ DOMAIN session_service_auth = Sessions
    /\ \E s \in Sessions :
           /\ DOMAIN session_service_auth[s] = {"github"}
           /\ \A s2 \in Sessions \ {s} : session_service_auth[s2] = <<>>
    /\ elicitations_map # <<>>

\* C14: create inserts exactly one Record, under an id that is not in the
\* Store and was never returned before, with status pending, progress 0, no
\* token and an unresolved Bridge, and changes no other Record nor the cache.
C14_CreateInsertsOne ==
    [][\A s \in Sessions :
          generate_tracked_elicitation(s, DefaultMessage) =>
             \E id \in DOMAIN elicitations_map' :
                /\ id \notin DOMAIN elicitations_map
                /\ id \notin DOMAIN issued
                /\ DOMAIN elicitations_map' = DOMAIN elicitations_map \cup {id}
                /\ elicitations_map'[id] =
                       [ status              |-> "pending",
                         progress            |-> 0,
                         completed_promise   |-> [done |-> FALSE,
                                                  set_result_calls |-> 0,
                                                  invalid_state |-> FALSE],
                         created_at          |-> now,
                         session_id          |-> s,
                         message             |-> DefaultMessage,
                         progress_token      |-> None,
                         notification_sender |-> [callable |-> FALSE,
                                                  received |-> <<>>,
                                                  failed |-> FALSE],
                         collected_token     |-> None,
                         token_validated     |-> FALSE ]
                /\ \A j \in DOMAIN elicitations_map :
                       elicitations_map'[j] = elicitations_map[j]
                /\ session_service_auth' = session_service_auth
      ]_vars

\* a second Record was created next to a Record that had already been
\* completed with a token, with the session authenticated
C14_Witness ==
    /\ Cardinality(DOMAIN elicitations_map) = 2
    /\ \E id, j \in DOMAIN elicitations_map :
           /\ elicitations_map[id].token_validated
           /\ elicitations_map[id].created_at < elicitations_map[j].created_at
           /\ elicitations_map[j].status = "pending"
           /\ elicitations_map[j].progress = 0
    /\ session_service_auth # <<>>

\* the step is a call, on `id`, of one of the Manager's operations on a Record
IsRecordCall(id) ==
    \/ update_elicitation_progress(id, None)
    \/ \E t \in TokenArgs : complete_elicitation(id, None, t)
    \/ accept_elicitation(id, None)
    \/ decline_elicitation(id, None)
    \/ cancel_elicitation(id, None)
    \/ GetElicitation(id)
    \/ GetCollectedToken(id)

C16_TerminalRejectsPortalCalls ==
    [][\A id \in DOMAIN elicitations_map :
          elicitations_map[id].status
              \in {"complete", "accepted", "declined", "cancelled"} =>
             \A m \in MessageArgs :
                (\/ accept_elicitation(id, m)
                 \/ decline_elicitation(id, m)
                 \/ cancel_elicitation(id, m))
                => /\ id \in DOMAIN elicitations_map'
                   /\ elicitations_map'[id] = elicitations_map[id]
      ]_vars

\* a Record declined by its first call (progress 1, Bridge resolved), next to
\* a Record completed with a token
C16_Witness ==
    /\ \E id \in DOMAIN elicitations_map :
           /\ elicitations_map[id].status = "declined"
           /\ elicitations_map[id].progress = 1
           /\ elicitations_map[id].completed_promise.done
    /\ \E id \in DOMAIN elicitations_map :
           /\ elicitations_map[id].status = "complete"
           /\ elicitations_map[id].token_validated

\* C17: update_progress on a Record in a terminal status (complete, accepted,
\* declined, cancelled) changes neither its message nor its progress.
C17_UpdateOnlyWhilePending ==
    [][\A id \in DOMAIN elicitations_map :
          elicitations_map[id].status
              \in {"complete", "accepted", "declined", "cancelled"} =>
             \A m \in MessageArgs :
                update_elicitation_progress(id, m) =>
                   /\ elicitations_map'[id].message = elicitations_map[id].message
                   /\ elicitations_map'[id].progress = elicitations_map[id].progress
      ]_vars

\* C18: in either trust mode, a tool call made while a valid statically
\* configured token is available uses that token, creates no Record and issues
\* no elicitation.
C18_StaticTokenSkipsElicitation ==
    [][\A s \in Sessions, api_ok \in BOOLEAN :
          ToolCall(s, "valid", api_ok) =>
             /\ elicitations_map' = elicitations_map
             /\ issued' = issued
             /\ tool'.pc = "done"
             /\ tool'.elicitation_id = None
             /\ tool'.client_token = ConfiguredToken("valid")
      ]_vars

\* C19: when the Store holds a Record of the calling session that is complete
\* with token_validated true, a new tool call of that session (no valid static
\* token being configured) reuses that Record's token and creates no Record.
C19_CompletedRecordReused ==
    [][\A s \in Sessions :
          (/\ ReusableIds(elicitations_map, s) # {}
           /\ \E static \in StaticConfigs \ {"valid"}, api_ok \in BOOLEAN :
                  ToolCall(s, static, api_ok))
          => /\ elicitations_map' = elicitations_map
             /\ issued' = issued
             /\ tool'.pc = "done"
             /\ \E id \in ReusableIds(elicitations_map, s) :
                    /\ tool'.github_token = elicitations_map[id].collected_token
                    /\ tool'.client_token = elicitations_map[id].collected_token
      ]_vars

\* the cache holds an authenticated entry for (session_id, github)
AuthEntryPresent(session_id) ==
    /\ session_id \in DOMAIN session_service_auth
    /\ "github" \in DOMAIN session_service_auth[session_id]
    /\ session_service_auth[session_id]["github"].authenticated

\* C20: in relaxed-trust mode, a tool call of a session that is authenticated
\* for github goes to the GitHub call without creating a Record and without
\* reading a token from the Store.
C20_AuthenticatedSessionProceeds ==
    [][\A s \in Sessions :
          (/\ insecure_mode
           /\ tool' # tool
           /\ AuthEntryPresent(s)
           /\ \E static \in StaticConfigs, api_ok \in BOOLEAN :
                  ToolCall(s, static, api_ok))
          => /\ elicitations_map' = elicitations_map
             /\ issued' = issued
             /\ tool'.pc = "done"
             /\ tool'.result \in {"repositories", "GitHub API Error"}
             /\ tool'.elicitation_id = None
             /\ tool'.github_token = None
             /\ tool'.client_token = JWT
      ]_vars

\* a call of an authenticated session has returned repositories without an
\* elicitation, while the Store holds a validated token of that session
C20_Witness ==
    /\ insecure_mode
    /\ tool.pc = "done"
    /\ tool.result = "repositories"
    /\ tool.elicitation_id = None
    /\ AuthEntryPresent(tool.session_id)
    /\ ReusableIds(elicitations_map, tool.session_id) # {}

\* the client's answers to ctx.elicit_url that carry an action
ElicitActions == ElicitOutcomes \ {"raise"}

\* the step is the tool reading back the Record it created, after the client
\* answered the elicitation with an action
IsReadBack ==
    /\ tool' # tool
    /\ tool.pc = "await"
    /\ tool.elicitation_id \in DOMAIN elicitations_map
    /\ \E a \in ElicitActions, static \in StaticConfigs, api_ok \in BOOLEAN :
           ToolResume(a, static, api_ok)

\* C21: when the Record a tool call created is declined (cancelled) at
\* read-back, the call ends with Access Denied (Access Cancelled), builds no
\* GitHub client and creates no Record, whatever action the client answered.
C21_RefusedRecordFailsCall ==
    [][IsReadBack =>
          LET status == elicitations_map[tool.elicitation_id].status
          IN /\ status = "declined" =>
                   /\ tool'.pc = "done"
                   /\ tool'.result = "Access Denied"
                   /\ tool'.client_token = None
                   /\ elicitations_map' = elicitations_map
             /\ status = "cancelled" =>
                   /\ tool'.pc = "done"
                   /\ tool'.result = "Access Cancelled"
                   /\ tool'.client_token = None
                   /\ elicitations_map' = elicitations_map
      ]_vars

C23_TokenlessProceeds ==
    [][IsReadBack =>
          LET id == tool.elicitation_id
              status == elicitations_map[id].status
          IN (\/ /\ status = "complete"
                 /\ ~Truthy(get_collected_token(elicitations_map, id))
              \/ /\ status = "accepted"
                 /\ insecure_mode)
             => /\ session_service_auth' =
                       Marked(session_service_auth, tool.session_id, "github", id)
                /\ tool'.pc = "done"
                /\ tool'.github_token = None
                /\ tool'.client_token # None
      ]_vars

\* C24: when the client answers accept while the Record the call created is
\* still pending, the tool returns the pending result with that Record's id
\* and the URL get_elicitation_url gave for it, builds no GitHub client, and
\* leaves the Store as it is.
C24_PendingResult ==
    [][(/\ tool' # tool
        /\ tool.pc = "await"
        /\ tool.elicitation_id \in DOMAIN elicitations_map
        /\ elicitations_map[tool.elicitation_id].status = "pending"
        /\ \E static \in StaticConfigs, api_ok \in BOOLEAN :
               ToolResume("accept", static, api_ok))
       => /\ tool'.pc = "done"
          /\ tool'.result = "pending"
          /\ tool'.returned_id = tool.elicitation_id
          /\ tool'.returned_url =
                 get_elicitation_url(tool.external_url, tool.elicitation_id)
          /\ tool'.client_token = None
          /\ elicitations_map' = elicitations_map
          /\ session_service_auth' = session_service_auth
      ]_vars

\* a pending result naming a Record that is pending after a visit of the form
C24_Witness ==
    /\ tool.pc = "done"
    /\ tool.result = "pending"
    /\ tool.returned_id \in DOMAIN elicitations_map
    /\ elicitations_map[tool.returned_id].status = "pending"
    /\ elicitations_map[tool.returned_id].progress = 1
    /\ tool.returned_url # <<>>

\* the form rejects a POST of `github_token` whose upstream check gave `ok`
IsRejectedToken(github_token, ok) ==
    \/ github_token = None
    \/ PrefixOf[github_token] \notin RecognisedPrefixes
    \/ ~ok

\* C25: a form POST whose token is missing, has no recognised prefix or fails
\* the upstream check changes no Record, and every collected token in the
\* Store has a recognised prefix and is a token GitHub accepts.
C25_RejectedPostLeavesRecord ==
    /\ [](\A id \in DOMAIN elicitations_map :
             elicitations_map[id].collected_token # None =>
                /\ PrefixOf[elicitations_map[id].collected_token]
                       \in RecognisedPrefixes
                /\ elicitations_map[id].collected_token \in GitHubAccepts)
    /\ [][(elicitations_map' # elicitations_map \/ history' # history) =>
             \A id \in IdArgs \cup {None}, t \in FormTokens, ok \in BOOLEAN :
                IsRejectedToken(t, ok) => ~github_token_form_post(t, id, ok)
         ]_vars

\* a Record completed by a token that passed both checks, next to a Record
\* that a visitor of the form left pending
C25_Witness ==
    /\ \E id \in DOMAIN elicitations_map :
           /\ elicitations_map[id].token_validated
           /\ elicitations_map[id].collected_token \in GitHubAccepts
    /\ \E id \in DOMAIN elicitations_map :
           /\ elicitations_map[id].status = "pending"
           /\ elicitations_map[id].progress = 1

\* the status the Manager transition named `action` records
StatusOf == [accept |-> "accepted", decline |-> "declined", cancel |-> "cancelled"]

\* C26: a portal callback with action accept, decline or cancel changes at
\* most the Record of the given id, by the transition of that name and never
\* in its token fields; a callback with a missing field or another action
\* changes neither the Store nor the Session Auth Cache.
C26_CallbackDispatch ==
    [][(elicitations_map' # elicitations_map
            \/ session_service_auth' # session_service_auth) =>
          \A id \in IdArgs \cup {None}, a \in CallbackActions :
             elicitation_callback(id, a) =>
                /\ a \in {"accept", "decline", "cancel"}
                /\ id \in DOMAIN elicitations_map
                /\ DOMAIN elicitations_map' = DOMAIN elicitations_map
                /\ \A j \in DOMAIN elicitations_map \ {id} :
                       elicitations_map'[j] = elicitations_map[j]
                /\ elicitations_map'[id].collected_token =
                       elicitations_map[id].collected_token
                /\ elicitations_map'[id].token_validated =
                       elicitations_map[id].token_validated
                /\ elicitations_map'[id] # elicitations_map[id] =>
                       /\ elicitations_map[id].status = "pending"
                       /\ elicitations_map'[id].status = StatusOf[a]
                       /\ elicitations_map'[id].completed_promise.done
                /\ session_service_auth' # session_service_auth => a = "accept"
      ]_vars

\* Records closed by the portal's decline and by the portal's accept
C26_Witness ==
    /\ \E id \in DOMAIN elicitations_map :
           /\ elicitations_map[id].status = "declined"
           /\ elicitations_map[id].message = PortalDeclineMessage
    /\ \E id \in DOMAIN elicitations_map :
           /\ elicitations_map[id].status = "accepted"
           /\ elicitations_map[id].message = PortalAcceptMessage

\* the results list_private_repos returns
ToolResults ==
    {"repositories", "pending", "Token Collection Failed", "Access Denied",
     "Access Cancelled", "GitHub API Error", "Configuration Error",
     "Unexpected Error"}

\* C27: a tool invocation is either not started, waiting for the client's
\* answer, or returned with one of the tool's structured results: no
\* exception leaves it.
C27_AlwaysStructuredResult ==
    /\ tool.pc \in {"idle", "await", "done"}
    /\ tool.pc = "done" => tool.result \in ToolResults
    /\ tool.pc # "done" => tool.result = None

\* the client's constructor raised ValueError after an accepted elicitation,
\* and the tool returned the configuration error
C27_Witness ==
    /\ tool.pc = "done"
    /\ tool.result = "Configuration Error"
    /\ tool.elicitation_id \in DOMAIN elicitations_map
    /\ elicitations_map[tool.elicitation_id].status = "accepted"

\* C28 as stated: in both modes, two calls that created different Records were
\* handed different URLs.
C28_UrlsDifferInBothModes ==
    [][(/\ tool.elicitation_id # None
        /\ tool'.elicitation_id # None
        /\ tool'.elicitation_id # tool.elicitation_id)
       => tool'.token_url # tool.token_url
      ]_vars

\* C28: in local-form mode the URL handed out for an elicitation is the form's
\* URL with that elicitation's id as its parameter, so different ids get
\* different URLs; in external-portal mode it is the configured portal URL,
\* the same for every id.
C28_UrlByMode ==
    /\ [](tool.elicitation_id # None =>
             IF tool.external_url \in {None, ""}
             THEN /\ Len(tool.token_url) = 2
                  /\ tool.token_url[2] = tool.elicitation_id
             ELSE tool.token_url = <<tool.external_url>>)
    /\ [][(/\ tool.elicitation_id # None
           /\ tool'.elicitation_id # None
           /\ tool'.elicitation_id # tool.elicitation_id)
          => (tool'.token_url = tool.token_url
                 <=> /\ tool.external_url \notin {None, ""}
                     /\ tool'.external_url = tool.external_url)
         ]_vars

\* the second call of a run was handed the form's URL for the second Record
C28_Witness ==
    /\ tool.elicitation_id = UUIDs[2]
    /\ tool.external_url = None
    /\ tool.token_url[2] = UUIDs[2]
    /\ UUIDs[1] \in DOMAIN elicitations_map

\* C29: a call of update_progress or complete during which the sender raised
\* ends as a call whose sender succeeded: the progress increment is kept, and
\* complete leaves the status complete, the token fields set from its token
\* and the Bridge resolved, by one set_result.
C29_SenderFailureContained ==
    [][\A id \in DOMAIN elicitations_map :
          LET md == elicitations_map[id]
              after == elicitations_map'[id]
          IN (/\ elicitations_map' # elicitations_map
              /\ HasChannel(md)
              /\ after # md
              /\ after.notification_sender.received = md.notification_sender.received)
             => /\ update_elicitation_progress(id, "msg") =>
                      /\ after.notification_sender.failed
                      /\ after.progress = md.progress + 1
                      /\ after.message = "msg"
                /\ \A t \in NotifyTokenArgs :
                      complete_elicitation(id, None, t) =>
                         /\ after.notification_sender.failed
                         /\ after.progress = md.progress + 1
                         /\ after.status = "complete"
                         /\ after.collected_token =
                                (IF t = None THEN md.collected_token ELSE t)
                         /\ after.token_validated =
                                (IF t = None THEN md.token_validated ELSE TRUE)
                         /\ after.completed_promise.done
                         /\ after.completed_promise.set_result_calls = 1
                         /\ ~after.completed_promise.invalid_state
      ]_vars

\* a Record whose sender raised at every call, the final one included: it was
\* updated and then completed with a token, and its Bridge is resolved
C29_Witness ==
    \E id \in DOMAIN elicitations_map :
        /\ HasChannel(elicitations_map[id])
        /\ elicitations_map[id].notification_sender.failed
        /\ elicitations_map[id].notification_sender.received = <<>>
        /\ elicitations_map[id].status = "complete"
        /\ elicitations_map[id].token_validated
        /\ elicitations_map[id].progress = 2
        /\ elicitations_map[id].completed_promise.done

\* the notification carries `total`
IsFinal(notification) == "total" \in DOMAIN notification

\* C30: the notifications a Record's sender was sent carry strictly
\* increasing progress values, at most one of them carries total, and that
\* one is the last.
C30_NotificationsOrdered ==
    \A id \in DOMAIN elicitations_map :
        LET received == elicitations_map[id].notification_sender.received
        IN /\ \A i, j \in 1..Len(received) :
                  i < j => received[i].progress < received[j].progress
           /\ \A i \in 1..Len(received) :
                  IsFinal(received[i]) =>
                     /\ i = Len(received)
                     /\ received[i].total = received[i].progress
           /\ \A i \in 1..Len(received) :
                  received[i].progress <= elicitations_map[id].progress

\* a sender that was sent two progress notifications and then the final one
C30_Witness ==
    \E id \in DOMAIN elicitations_map :
        LET received == elicitations_map[id].notification_sender.received
        IN /\ Len(received) = 3
           /\ IsFinal(received[3])
           /\ ~IsFinal(received[2])
           /\ elicitations_map[id].status = "complete"

\* C33: the Bridge of every Record in the Store is resolved exactly when the
\* Record's status is not pending.
C33_ResolvedIffNotPending ==
    \A id \in DOMAIN elicitations_map :
        elicitations_map[id].completed_promise.done
            <=> elicitations_map[id].status # "pending"

\* a cancelled Record with its Bridge resolved, next to a Record that is
\* pending after two update_progress calls, its Bridge unresolved
C33_Witness ==
    /\ \E id \in DOMAIN elicitations_map :
           /\ elicitations_map[id].status = "cancelled"
           /\ elicitations_map[id].completed_promise.done
    /\ \E id \in DOMAIN elicitations_map :
           /\ elicitations_map[id].status = "pending"
           /\ elicitations_map[id].progress = 2
           /\ ~elicitations_map[id].completed_promise.done

\* C34: once a Record has status complete, no step changes its status,
\* collected_token, token_validated, message or progress.
C34_CompleteIsFrozen ==
    [][\A id \in DOMAIN elicitations_map \cap DOMAIN elicitations_map' :
          elicitations_map[id].status = "complete" =>
             /\ elicitations_map'[id].status = "complete"
             /\ elicitations_map'[id].collected_token =
                    elicitations_map[id].collected_token
             /\ elicitations_map'[id].token_validated =
                    elicitations_map[id].token_validated
             /\ elicitations_map'[id].message = elicitations_map[id].message
             /\ elicitations_map'[id].progress = elicitations_map[id].progress
      ]_vars

\* both Records are complete, one with a token and a message of its own, the
\* other without a token: every call that follows names a complete Record
C34_Witness ==
    /\ Cardinality(DOMAIN elicitations_map) = 2
    /\ \A id \in DOMAIN elicitations_map : elicitations_map[id].status = "complete"
    /\ \E id \in DOMAIN elicitations_map :
           /\ elicitations_map[id].token_validated
           /\ elicitations_map[id].message = "msg"
    /\ \E id \in DOMAIN elicitations_map : ~elicitations_map[id].token_validated

\* C35: a sweep that has begun its scan goes on to its deletions and from
\* them back to its sleep, whatever the event loop does in between; the
\* cleanup thread never ends.
C35_SweepAlwaysFinishes ==
    [][/\ reaper.pc = "scan" => reaper'.pc \in {"scan", "delete"}
       /\ reaper.pc = "delete" => reaper'.pc \in {"delete", "sleep"}
       /\ reaper.pc = "sleep" => reaper'.pc \in {"sleep", "scan"}
      ]_vars

\* the sessions whose github entry of the cache is written by the step
WrittenSessions ==
    {s \in DOMAIN session_service_auth' :
        \/ s \notin DOMAIN session_service_auth
        \/ session_service_auth'[s] # session_service_auth[s]}

\* C32: when a github entry of the Session Auth Cache is written, the Record
\* of the elicitation it names has status accepted or complete.
C32_MarkedOnlyWhenGranted ==
    [][session_service_auth' # session_service_auth =>
          \A s \in WrittenSessions :
             LET e == session_service_auth'[s]["github"].elicitation_id
             IN /\ e \in DOMAIN elicitations_map'
                /\ elicitations_map'[e].status \in {"accepted", "complete"}
      ]_vars

\* C37: while relaxed-trust mode is off, the Session Auth Cache is empty.
C37_CacheUnusedInSecureMode ==
    ~insecure_mode => session_service_auth = <<>>

\* in secure mode the portal accepted a Record and the tool call that created
\* it went on to the GitHub client, with the cache still empty
C37_Witness ==
    /\ ~insecure_mode
    /\ session_service_auth = <<>>
    /\ tool.pc = "done"
    /\ tool.elicitation_id \in DOMAIN elicitations_map
    /\ elicitations_map[tool.elicitation_id].status = "accepted"
    /\ elicitations_map[tool.elicitation_id].message = PortalAcceptMessage
    /\ tool.client_token # None

C39_SuccessMeansTransition ==
    [][\A id \in IdArgs \cup {None}, a \in CallbackActions :
          (/\ callback_response(id, a) = "success"
           /\ elicitation_callback(id, a))
          => /\ id \in DOMAIN elicitations_map
             /\ elicitations_map[id].status = "pending"
             /\ elicitations_map'[id].status # "pending"
      ]_vars

\* the tokens a GitHub client is built with that no Record collected
UncollectedTokens == {None, JWT} \cup {ConfiguredToken(c) : c \in StaticConfigs}

\* C31: the token a tool call builds its GitHub client with is statically
\* configured, or is the collected token of a Record created in the session
\* that makes the call.
C31_NoCrossSessionToken ==
    tool.client_token \notin UncollectedTokens =>
        \E id \in DOMAIN elicitations_map :
            /\ tool.created_for[id] = tool.session
            /\ elicitations_map[id].collected_token = tool.client_token

\* C36: a step of the tool's search of the Store, whatever the cleanup thread
\* did since the search began, either goes on, or ends the search with a
\* token of a Record of the calling session or with no token; it does not end
\* the tool call with an error result.
C36_ScanSurvivesSweep ==
    [][tool.pc = "scan" /\ tool' # tool =>
          /\ tool'.pc \in {"scan", "await", "done"}
          /\ tool'.result # "Unexpected Error"
          /\ \/ tool'.github_token = None
             \/ \E id \in ReusableIds(elicitations_map, tool.session_id) :
                    tool'.github_token = elicitations_map[id].collected_token
      ]_vars

====
